---- MODULE Spec2Model ----
(***************************************************************************)
(* Model of ea-appointment-reminders (src/src/main.rs): the startup load   *)
(* of reminders.txt, the polling loop of main(), check() and               *)
(* send_notification(), with the process being stopped and restarted.      *)
(*                                                                         *)
(* Time is counted in whole days; the only time arithmetic of the program  *)
(* is `date <= now` and `date - now > TimeDelta::days(3)`.  Text (the      *)
(* content of reminders.txt) is a sequence of one-character strings.       *)
(***************************************************************************)
EXTENDS Integers, Sequences, FiniteSets, TLC

\* ---------------------------------------------------------------- bounds
MaxAppts == 2        \* longest appointment list a fetch returns
MaxNow == 1          \* latest value of the clock, in days

\* ------------------------------------------------------ program constants
ReminderWindowDays == 3

\* ---------------------------------------------------------------- inputs
\* The ids of the appointments the API knows, and of their customers: the
\* appointment numbered i is the one of the customer numbered i.
AppointmentIds == {1, 2}
CustomerIds == AppointmentIds

\* What a customer fetch returns: every customer, or all but the first.
CustomerLists == {CustomerIds, CustomerIds \ {1}}

\* Starts run from day 0 to one day past the window of day 0.
MaxStart == ReminderWindowDays + 1

Range(s) == {s[i] : i \in 1..Len(s)}
SeqsUpTo(S, n) == UNION {[1..k -> S] : k \in 0..n}

\* -------------------------------------------------------------- text
Digits == <<"0", "1", "2", "3", "4", "5", "6", "7", "8", "9">>
Newline == "\n"

IsDigit(c) == \E d \in 1..10 : Digits[d] = c
DigitValue(c) == (CHOOSE d \in 1..10 : Digits[d] = c) - 1

\* u32::to_string: decimal digits, most significant first, no padding.
RECURSIVE to_string(_)
to_string(n) ==
    IF n < 10 THEN <<Digits[n + 1]>>
    ELSE to_string(n \div 10) \o <<Digits[(n % 10) + 1]>>

\* Itertools::join without a separator between the items (mutation of join).
RECURSIVE join_no_sep(_, _)
join_no_sep(items, sep) ==
    IF items = <<>> THEN <<>>
    ELSE Head(items) \o join_no_sep(Tail(items), sep)

\* Itertools::join: the items with sep between consecutive ones.
RECURSIVE join(_, _)
join(items, sep) ==
    IF items = <<>> THEN <<>>
    ELSE IF Len(items) = 1 THEN Head(items)
    ELSE Head(items) \o <<sep>> \o join(Tail(items), sep)

\* The text main() hands to fs::write.
Serialize(set) == join([i \in 1..Len(set) |-> to_string(set[i])], Newline)

\* str::split('\n'): always at least one piece.
RECURSIVE split(_)
split(text) ==
    IF \A i \in 1..Len(text) : text[i] # Newline THEN <<text>>
    ELSE LET i == CHOOSE k \in 1..Len(text) :
                     /\ text[k] = Newline
                     /\ \A j \in 1..(k - 1) : text[j] # Newline
         IN <<SubSeq(text, 1, i - 1)>> \o split(SubSeq(text, i + 1, Len(text)))

\* str::split_terminator('\n'): split, with an empty last piece skipped.
split_terminator(text) ==
    LET pieces == split(text)
    IN IF pieces[Len(pieces)] = <<>>
       THEN SubSeq(pieces, 1, Len(pieces) - 1)
       ELSE pieces

RECURSIVE digits_value(_, _)
digits_value(line, acc) ==
    IF line = <<>> THEN acc
    ELSE digits_value(Tail(line), acc * 10 + DigitValue(Head(line)))

\* str::parse::<u32>: a non-empty run of decimal digits.
parse_u32(line) ==
    IF line # <<>> /\ \A i \in 1..Len(line) : IsDigit(line[i])
    THEN [ok |-> TRUE, value |-> digits_value(line, 0)]
    ELSE [ok |-> FALSE, value |-> 0]

\* The startup load: every line parsed, any bad line makes the load fail.
LoadReminders(text) ==
    LET lines == split_terminator(text)
        parsed == [i \in 1..Len(lines) |-> parse_u32(lines[i])]
    IN IF \A i \in 1..Len(lines) : parsed[i].ok
       THEN [ok |-> TRUE, ids |-> [i \in 1..Len(lines) |-> parsed[i].value]]
       ELSE [ok |-> FALSE, ids |-> <<>>]

\* ------------------------------------------------------------ the file
NoFile == [exists |-> FALSE, text |-> <<>>]
FileWith(text) == [exists |-> TRUE, text |-> text]

\* What reminders.txt can hold when the program is started.
InitFiles == {NoFile, FileWith(Serialize(<<1>>)), FileWith(<<"x">>)}

\* fs::write that does not complete: File::create fails (file untouched),
\* or the file is truncated and only a proper prefix of text is written.
InterruptedWrites(old, text) ==
    {old} \cup {FileWith(SubSeq(text, 1, k)) : k \in 0..(Len(text) - 1)}

\* ------------------------------------------------------- appointments
Starts ==
    {[wellformed |-> TRUE, time |-> t] : t \in 0..MaxStart}
        \cup {[wellformed |-> FALSE, time |-> 0]}

Appointments ==
    {[id |-> i, start |-> s, customer_id |-> i] :
        i \in AppointmentIds, s \in Starts}

AppointmentLists == SeqsUpTo(Appointments, MaxAppts)

NoAppointment ==
    [id |-> 0, start |-> [wellformed |-> FALSE, time |-> 0], customer_id |-> 0]

\* Appointment::start_date
start_date(a) ==
    IF a.start.wellformed
    THEN [ok |-> TRUE, date |-> a.start.time]
    ELSE [ok |-> FALSE, date |-> 0]

\* Vec::contains that looks at the first element only (mutation).
contains_first_only(set, id) == set # <<>> /\ set[1] = id

\* Vec::contains that never finds the id (mutation).
contains_never(set, id) == FALSE

\* reminders_set.contains(&appointment.id)
contains(set, id) == \E i \in 1..Len(set) : set[i] = id

\* `date < now` in place of `date <= now` (mutation).
in_the_past_strict(date, t) == date < t

\* date <= now
in_the_past(date, t) == date <= t

\* `>=` in place of `>` (mutation).
at_least_3_days_out(date, t) == date - t >= ReminderWindowDays

\* date - now > TimeDelta::days(3)
more_than_3_days_out(date, t) == date - t > ReminderWindowDays

\* push that forgets what was there (mutation).
push_replacing(set, id) == <<id>>

\* reminders_set.push(appointment.id)
push(set, id) == Append(set, id)

\* A lookup that takes whatever customer comes first (mutation).
find_customer_any(cs, customer_id) == cs # {}

\* customers.iter().find(|c| c.id == appointment.customer_id) is Some
find_customer(cs, customer_id) == customer_id \in cs

\* What SmtpTransport::send can do.
SmtpResults == {"positive", "negative", "error"}

\* send_notification: Err only when the send itself errs; a response that
\* is not positive is logged with warn! and Ok(()) is returned.
send_notification(smtp) == IF smtp = "error" THEN "Err" ELSE "Ok"

\* ------------------------------------------------------------- state
VARIABLES
    pc,             \* where main() is
    reminders_set,  \* main's Vec<u32>
    file,           \* reminders.txt
    appointments,   \* check(): appointments the for loop has not reached yet
    customers,      \* check(): ids of the fetched customers
    now,            \* check(): Utc::now(), 0 outside the for loop
    err,            \* result of the current or last check()
    ev,             \* what the last step did (observation)
    recorded,       \* ids pushed in the current cycle (observation)
    lost,           \* ids pushed in a cycle of this run whose write failed
    persisted       \* ids that a completed write has put in the file

vars == <<pc, reminders_set, file, appointments, customers, now, err, ev,
          recorded, lost, persisted>>

Event(outcome, a, smtp) == [outcome |-> outcome, appt |-> a, smtp |-> smtp]
NoEvent == Event("None", NoAppointment, "none")

FetchErrors == {"FetchAppointments", "FetchCustomers"}

Init ==
    /\ pc = "boot"
    /\ reminders_set = <<>>
    /\ file \in InitFiles
    /\ appointments = <<>>
    /\ customers = {}
    /\ now = 0
    /\ err = "None"
    /\ ev = NoEvent
    /\ recorded = {}
    /\ lost = {}
    /\ persisted = IF file.exists /\ LoadReminders(file.text).ok
                   THEN Range(LoadReminders(file.text).ids)
                   ELSE {}

\* ------------------------------------------------------------ startup
\* reminders.txt does not exist: start with an empty Vec.
StartupNoFile ==
    /\ pc = "boot"
    /\ ~file.exists
    /\ reminders_set' = <<>>
    /\ pc' = "fetch_appointments"
    /\ ev' = Event("NoFile", NoAppointment, "none")
    /\ UNCHANGED <<file, appointments, customers, now, err, recorded, lost,
                   persisted>>

\* reminders.txt exists and every line parses.
StartupLoad ==
    /\ pc = "boot"
    /\ file.exists
    /\ LoadReminders(file.text).ok
    /\ reminders_set' = LoadReminders(file.text).ids
    /\ pc' = "fetch_appointments"
    /\ ev' = Event("Loaded", NoAppointment, "none")
    /\ UNCHANGED <<file, appointments, customers, now, err, recorded, lost,
                   persisted>>

\* fs::read_to_string fails: process::exit(1).
StartupReadError ==
    /\ pc = "boot"
    /\ file.exists
    /\ pc' = "exited"
    /\ ev' = Event("ReadError", NoAppointment, "none")
    /\ UNCHANGED <<reminders_set, file, appointments, customers, now, err,
                   recorded, lost, persisted>>

\* A line that does not parse is left out and the process goes on (mutation).
StartupCorruptSkipsLine ==
    /\ pc = "boot"
    /\ file.exists
    /\ ~LoadReminders(file.text).ok
    /\ reminders_set' = <<>>
    /\ pc' = "fetch_appointments"
    /\ ev' = Event("Loaded", NoAppointment, "none")
    /\ UNCHANGED <<file, appointments, customers, now, err, recorded, lost,
                   persisted>>

\* A line does not parse: expect() panics.
StartupCorrupt ==
    /\ pc = "boot"
    /\ file.exists
    /\ ~LoadReminders(file.text).ok
    /\ pc' = "exited"
    /\ ev' = Event("Panic", NoAppointment, "none")
    /\ UNCHANGED <<reminders_set, file, appointments, customers, now, err,
                   recorded, lost, persisted>>

\* ------------------------------------------------------------- check()
\* The for loop entered right after the appointment fetch, the customers
\* not fetched yet (mutation).
FetchAppointmentsOkThenLoop ==
    /\ pc = "fetch_appointments"
    /\ \E list \in AppointmentLists : appointments' = list
    /\ pc' = "loop"
    /\ ev' = NoEvent
    /\ UNCHANGED <<reminders_set, file, customers, now, err, recorded, lost,
                   persisted>>

FetchAppointmentsOk ==
    /\ pc = "fetch_appointments"
    /\ \E list \in AppointmentLists : appointments' = list
    /\ pc' = "fetch_customers"
    /\ ev' = NoEvent
    /\ UNCHANGED <<reminders_set, file, customers, now, err, recorded, lost,
                   persisted>>

\* get_appointments(..).await? returns the error from check().
FetchAppointmentsFail ==
    /\ pc = "fetch_appointments"
    /\ err' = "FetchAppointments"
    /\ pc' = "write"
    /\ ev' = NoEvent
    /\ UNCHANGED <<reminders_set, file, appointments, customers, now,
                   recorded, lost, persisted>>

\* Both fetches done: Utc::now() is read (the wall clock, which may have
\* been set back since the last cycle) and the for loop starts.
FetchCustomersOk ==
    /\ pc = "fetch_customers"
    /\ \E cs \in CustomerLists : customers' = cs
    /\ \E t \in 0..MaxNow : now' = t
    /\ pc' = "loop"
    /\ ev' = NoEvent
    /\ UNCHANGED <<reminders_set, file, appointments, err, recorded, lost,
                   persisted>>

\* get_customers(..).await? returns the error from check().
FetchCustomersFail ==
    /\ pc = "fetch_customers"
    /\ err' = "FetchCustomers"
    /\ appointments' = <<>>
    /\ pc' = "write"
    /\ ev' = NoEvent
    /\ UNCHANGED <<reminders_set, file, customers, now, recorded, lost,
                   persisted>>

\* What one pass of the for loop does with appointment a when the SMTP
\* send (if it gets that far) behaves as smtp.
Outcome(a, smtp) ==
    IF contains(reminders_set, a.id) THEN "AlreadyNotified"
    ELSE IF ~start_date(a).ok THEN "BadStart"
    ELSE IF in_the_past(start_date(a).date, now) THEN "Expired"
    ELSE IF more_than_3_days_out(start_date(a).date, now) THEN "NotYetDue"
    ELSE IF ~find_customer(customers, a.customer_id) THEN "NoCustomer"
    ELSE IF send_notification(smtp) = "Err" THEN "SendError"
    ELSE "Sent"

\* One pass of `for appointment in appointments`.
Iterate ==
    /\ pc = "loop"
    /\ appointments # <<>>
    /\ \E smtp \in SmtpResults :
        LET a == Head(appointments)
            o == Outcome(a, smtp)
            called == o \in {"SendError", "Sent"}
        IN /\ ev' = Event(o, a, IF called THEN smtp ELSE "none")
           /\ IF o = "Sent"
              THEN /\ reminders_set' = push(reminders_set, a.id)
                   /\ recorded' = recorded \cup {a.id}
              ELSE UNCHANGED <<reminders_set, recorded>>
           /\ IF o \in {"BadStart", "SendError"}
              THEN /\ err' = IF o = "BadStart" THEN "StartDate" ELSE "Send"
                   /\ appointments' = <<>>
                   /\ customers' = {}
                   /\ now' = 0
                   /\ pc' = "write"
              ELSE /\ appointments' = Tail(appointments)
                   /\ UNCHANGED <<err, customers, now, pc>>
    /\ UNCHANGED <<file, lost, persisted>>

\* The for loop is over: Ok(()).
LoopEnd ==
    /\ pc = "loop"
    /\ appointments = <<>>
    /\ err' = "Ok"
    /\ customers' = {}
    /\ now' = 0
    /\ pc' = "write"
    /\ ev' = NoEvent
    /\ UNCHANGED <<reminders_set, file, appointments, recorded, lost,
                   persisted>>

\* -------------------------------------------------------------- main loop
\* The write done only when check() returned Ok (mutation).
PersistOkUnlessErr ==
    /\ pc = "write"
    /\ file' = IF err = "Ok" THEN FileWith(Serialize(reminders_set)) ELSE file
    /\ persisted' = IF err = "Ok" THEN persisted \cup Range(reminders_set)
                    ELSE persisted
    /\ pc' = "sleep"
    /\ ev' = Event("WriteOk", NoAppointment, "none")
    /\ UNCHANGED <<reminders_set, appointments, customers, now, err,
                   recorded, lost>>

\* fs::write succeeds.
PersistOk ==
    /\ pc = "write"
    /\ file' = FileWith(Serialize(reminders_set))
    /\ persisted' = persisted \cup Range(reminders_set)
    /\ pc' = "sleep"
    /\ ev' = Event("WriteOk", NoAppointment, "none")
    /\ UNCHANGED <<reminders_set, appointments, customers, now, err,
                   recorded, lost>>

\* A failed write that also throws the cycle's ids away (mutation).
PersistFailRollback ==
    /\ pc = "write"
    /\ \E f \in InterruptedWrites(file, Serialize(reminders_set)) : file' = f
    /\ reminders_set' = SelectSeq(reminders_set, LAMBDA id : id \notin recorded)
    /\ lost' = lost \cup recorded
    /\ pc' = "sleep"
    /\ ev' = Event("WriteFailed", NoAppointment, "none")
    /\ UNCHANGED <<appointments, customers, now, err, recorded, persisted>>

\* A failed write that ends the process (mutation).
PersistFailExit ==
    /\ pc = "write"
    /\ \E f \in InterruptedWrites(file, Serialize(reminders_set)) : file' = f
    /\ lost' = lost \cup recorded
    /\ pc' = "exited"
    /\ ev' = Event("WriteFailed", NoAppointment, "none")
    /\ UNCHANGED <<reminders_set, appointments, customers, now, err,
                   recorded, persisted>>

\* fs::write fails: error! and carry on.
PersistFail ==
    /\ pc = "write"
    /\ \E f \in InterruptedWrites(file, Serialize(reminders_set)) : file' = f
    /\ lost' = lost \cup recorded
    /\ pc' = "sleep"
    /\ ev' = Event("WriteFailed", NoAppointment, "none")
    /\ UNCHANGED <<reminders_set, appointments, customers, now, err,
                   recorded, persisted>>

\* sleep(1 hour), then the next pass of `loop`.
Sleep ==
    /\ pc = "sleep"
    /\ pc' = "fetch_appointments"
    /\ err' = "None"
    /\ recorded' = {}
    /\ ev' = NoEvent
    /\ UNCHANGED <<reminders_set, file, appointments, customers, now, lost,
                   persisted>>

\* The process is killed (or the machine goes down) and is started again.
\* Killed inside fs::write, the file is left as an interrupted write leaves
\* it, or complete.
Crash ==
    /\ pc \notin {"boot", "exited"}
    /\ IF pc = "write"
       THEN \E f \in InterruptedWrites(file, Serialize(reminders_set))
                        \cup {FileWith(Serialize(reminders_set))} : file' = f
       ELSE UNCHANGED file
    /\ pc' = "boot"
    /\ reminders_set' = <<>>
    /\ appointments' = <<>>
    /\ customers' = {}
    /\ err' = "None"
    /\ recorded' = {}
    /\ lost' = {}
    /\ now' = 0
    /\ ev' = Event("Crash", NoAppointment, "none")
    /\ UNCHANGED persisted

Next ==
    \/ StartupNoFile
    \/ StartupLoad
    \/ StartupReadError
    \/ StartupCorrupt
    \/ FetchAppointmentsOk
    \/ FetchAppointmentsFail
    \/ FetchCustomersOk
    \/ FetchCustomersFail
    \/ Iterate
    \/ LoopEnd
    \/ PersistOk
    \/ PersistFail
    \/ Sleep

\* One run of the process.
Spec == Init /\ [][Next]_vars

\* Runs of the process, each ended by a kill and followed by a restart.
CrashNext ==
    \/ Next
    \/ Crash

CrashSpec == Init /\ [][CrashNext]_vars

TypeOK ==
    /\ pc \in {"boot", "fetch_appointments", "fetch_customers", "loop",
               "write", "sleep", "exited"}
    /\ appointments \in AppointmentLists
    /\ customers \subseteq CustomerIds
    /\ now \in 0..MaxNow
    /\ err \in {"None", "Ok", "StartDate", "Send"} \cup FetchErrors
    /\ recorded \subseteq AppointmentIds
    /\ lost \subseteq AppointmentIds

\* ------------------------------------------------- round trip of the file
MaxRtId == 11        \* largest identifier saved in the round trip
MaxRtLen == 2        \* longest Vec saved in the round trip

\* The process is stopped from outside while it sleeps, and started again.
Stop ==
    /\ pc = "sleep"
    /\ Crash

\* main() about to write a non-empty Vec of any identifiers, no file yet.
RtInit ==
    /\ pc = "write"
    /\ reminders_set \in SeqsUpTo(0..MaxRtId, MaxRtLen) \ {<<>>}
    /\ file = NoFile
    /\ appointments = <<>>
    /\ customers = {}
    /\ now = 0
    /\ err = "Ok"
    /\ ev = NoEvent
    /\ recorded = {}
    /\ lost = {}
    /\ persisted = {}

RtNext ==
    \/ PersistOk
    \/ Stop
    \/ StartupLoad

RoundTripSpec == RtInit /\ [][RtNext]_vars

\* ------------------------------------------------------------ properties
\* send_notification was called for the appointment of event e.
IsDispatch(e) == e.outcome \in {"SendError", "Sent"}

\* The step is one pass of the for loop (and not the process being killed).
LoopStep == pc = "loop" /\ appointments # <<>> /\ pc' # "boot"

\* C1: within one process run the Notified-ID Set only grows: whatever a step
\* of the run does (a failed fetch, an error return of check(), a failed
\* write), every identifier in reminders_set before it is in it afterwards.
C1_SetOnlyGrows ==
    [][(pc # "boot" /\ pc' # "boot")
          => Range(reminders_set) \subseteq Range(reminders_set')]_vars

\* C1 witness: a cycle that pushed an id, then returned an error, and whose
\* write failed, has ended with the id in the Vec.
C1_Witness ==
    /\ pc = "sleep"
    /\ ev.outcome = "WriteFailed"
    /\ err \in {"StartDate", "Send"}
    /\ recorded # {}
    /\ recorded \subseteq Range(reminders_set)

\* C2: an appointment whose id is in the Notified-ID Set when the loop
\* reaches it gets no dispatch attempt and changes nothing, whatever its
\* start (also a malformed one); and an id that is pushed was not in the Vec.
C2_NoDispatchForNotified ==
    [][LoopStep =>
          LET a == Head(appointments)
          IN /\ a.id \in Range(reminders_set)
                  => /\ ~IsDispatch(ev')
                     /\ reminders_set' = reminders_set
                     /\ err' = err
             /\ reminders_set' # reminders_set
                  => /\ a.id \notin Range(reminders_set)
                     /\ reminders_set' = Append(reminders_set, a.id)]_vars

\* C2 witness: an appointment with a malformed start was skipped because its
\* id is the second entry of the Vec.
C2_Witness ==
    /\ ev.outcome = "AlreadyNotified"
    /\ ~ev.appt.start.wellformed
    /\ Len(reminders_set) = 2
    /\ reminders_set[2] = ev.appt.id

\* C3 (as claimed): an id is in the Notified-ID Set after its dispatch only
\* when the dispatch succeeded; after an SMTP response that is not positive,
\* or an error of the send, the id is not in the Vec.
C3_Original ==
    ev.smtp \in {"negative", "error"} => ev.appt.id \notin Range(reminders_set)

\* What the startup would load from file f.
Durable(f) ==
    IF ~f.exists THEN [ok |-> TRUE, ids |-> <<>>] ELSE LoadReminders(f.text)

\* C4 (as claimed): a cycle whose appointment or customer fetch fails
\* examines no appointment, dispatches nothing, and leaves the Vec and what
\* the state file holds as they were, and main() goes on to sleep.
C4_Original ==
    [][/\ (pc \in {"fetch_appointments", "fetch_customers"}
             /\ err' \in FetchErrors)
          => /\ pc' = "write"
             /\ ~IsDispatch(ev')
             /\ reminders_set' = reminders_set
             /\ file' = file
       /\ (pc = "write" /\ err \in FetchErrors /\ pc' # "boot")
          => /\ pc' = "sleep"
             /\ reminders_set' = reminders_set
             /\ Durable(file') = Durable(file)]_vars

\* C5 (as claimed): an appointment without a customer, with a malformed
\* start, or whose dispatch fails is skipped alone: the appointments after
\* it in the fetched list are still processed in the same cycle.
C5_Original ==
    [][(LoopStep /\ Len(appointments) >= 2
          /\ ev'.outcome \in {"NoCustomer", "BadStart", "SendError"})
          => /\ pc' = "loop"
             /\ appointments' = Tail(appointments)]_vars

\* C6 (as claimed): once a completed write has put an id in the state file,
\* no dispatch is attempted for that id again, whatever crashes, failed
\* writes and restarts happen.
C6_Original ==
    IsDispatch(ev) => ev.appt.id \notin persisted

\* C7: the decision of one pass of the for loop is the one of the reference
\* classifier, rules in order: id in the set -> AlreadyNotified; start <= now
\* -> Expired; start - now > 3 days -> NotYetDue; else Eligible (which goes
\* on to the customer lookup and the dispatch).
C7_MatchesClassifier ==
    [][(LoopStep /\ Head(appointments).start.wellformed) =>
          LET a == Head(appointments)
              reference ==
                  IF a.id \in Range(reminders_set) THEN "AlreadyNotified"
                  ELSE IF a.start.time <= now THEN "Expired"
                  ELSE IF a.start.time - now > 3 THEN "NotYetDue"
                  ELSE "Eligible"
              decision ==
                  IF ev'.outcome \in {"NoCustomer", "SendError", "Sent"}
                  THEN "Eligible"
                  ELSE ev'.outcome
          IN decision = reference]_vars

\* C7 witness: a reminder was sent for an appointment exactly 3 days out.
C7_Witness ==
    /\ ev.outcome = "Sent"
    /\ pc = "loop"
    /\ ev.appt.start.time - now = 3

\* C8: an appointment that has started (start <= now) or is more than 3 days
\* out causes no dispatch, no error and no change of the Vec, the file or
\* anything else the next cycles look at; the loop goes to the next one.
C8_SkippedSilently ==
    [][(LoopStep /\ Head(appointments).start.wellformed
          /\ (\/ Head(appointments).start.time <= now
              \/ Head(appointments).start.time - now > 3))
          => /\ ~IsDispatch(ev')
             /\ pc' = "loop"
             /\ appointments' = Tail(appointments)
             /\ UNCHANGED <<reminders_set, file, err, recorded, lost,
                            persisted, customers, now>>]_vars

\* C8 witness: an appointment starting exactly now was skipped as expired.
C8_Witness ==
    /\ ev.outcome = "Expired"
    /\ pc = "loop"
    /\ ev.appt.start.time = now

\* C9: what the startup loads from a file that a completed write of a
\* non-empty Vec produced is that Vec: right after the write the file
\* parses back to it, and the Vec of the restarted process holds the same
\* identifiers.
C9_RoundTrip ==
    /\ (ev.outcome = "WriteOk" /\ reminders_set # <<>>)
          => /\ file.exists
             /\ LoadReminders(file.text) = [ok |-> TRUE, ids |-> reminders_set]
    /\ ev.outcome = "Loaded"
          => /\ persisted # {}
             /\ Range(reminders_set) = persisted

\* C9 witness: a restarted process has loaded two identifiers, the second of
\* two digits.
C9_Witness ==
    /\ ev.outcome = "Loaded"
    /\ Len(reminders_set) = 2
    /\ reminders_set[2] >= 10
    /\ reminders_set[1] # reminders_set[2]

\* C10: a failed write leaves main() running (it goes to sleep), the ids
\* pushed in that cycle stay in the Vec for the rest of the run, and no
\* later pass of the loop dispatches for one of them.
C10_WriteFailureKeepsIds ==
    /\ ev.outcome = "WriteFailed" => pc = "sleep"
    /\ pc \notin {"boot", "exited"} => lost \subseteq Range(reminders_set)
    /\ IsDispatch(ev) => ev.appt.id \notin lost

\* C10 witness: in a cycle after a failed write, an appointment whose id was
\* pushed in the cycle of the failed write is met again and skipped.
C10_Witness ==
    /\ ev.outcome = "AlreadyNotified"
    /\ ev.appt.id \in lost
    /\ ev.appt.id \notin persisted

\* main() is inside `loop`.
Running == pc \notin {"boot", "exited"}

\* C11: once started, main() has no terminal state and never leaves `loop`:
\* a step is always possible, the first thing after startup is a cycle,
\* every cycle (whatever check() and fs::write returned) ends in the write
\* followed by the sleep, and a cycle starts only from startup or the sleep.
C11_LoopForever ==
    /\ [](Running => ENABLED <<Next>>_vars)
    /\ [][/\ Running => pc' # "exited"
          /\ pc = "boot" => pc' \in {"fetch_appointments", "exited"}
          /\ pc' = "fetch_appointments" => pc \in {"boot", "sleep"}
          /\ pc = "sleep" => pc' = "fetch_appointments"
          /\ pc = "write" => pc' = "sleep"
          /\ pc' = "sleep" => pc = "write"
          /\ pc' = "write" =>
                pc \in {"fetch_appointments", "fetch_customers", "loop"}]_vars

\* C11 witness: after a cycle that sent a reminder and whose write failed
\* (there is still no file), the next cycle has started.
C11_Witness ==
    /\ pc = "fetch_customers"
    /\ lost # {}
    /\ file = NoFile

\* C12: when reminders.txt exists at startup and holds something that is
\* not a line of digits, the process ends there: the file is left as it is,
\* nothing is loaded or dispatched, and no step follows.
C12_CorruptFileIsFatal ==
    [][(\/ pc = "exited"
        \/ /\ pc = "boot"
           /\ file.exists
           /\ \E i \in 1..Len(file.text) :
                 ~IsDigit(file.text[i]) /\ file.text[i] # Newline)
          => /\ pc' = "exited"
             /\ file' = file
             /\ reminders_set' = reminders_set
             /\ ~IsDispatch(ev')]_vars

\* C12 witness: the process has ended on the panic of the startup load.
C12_Witness ==
    /\ pc = "exited"
    /\ ev.outcome = "Panic"
    /\ file = FileWith(<<"x">>)
    /\ reminders_set = <<>>

\* C13 (as claimed): the save is an atomic replace: whenever the file
\* changes, it changes to the complete serialization of the Vec, also when
\* the write fails or the process is killed in it.
C13_Original ==
    [][file' = file \/ file' = FileWith(Serialize(reminders_set))]_vars

\* Appointment b would be Eligible, with its customer among the fetched
\* ones, for a Vec holding set.
EligibleWithCustomer(b, set) ==
    /\ b.start.wellformed
    /\ b.id \notin Range(set)
    /\ b.start.time - now > 0
    /\ b.start.time - now <= 3
    /\ b.customer_id \in customers

\* C14 (as claimed): in a cycle whose fetches succeeded every Eligible
\* appointment gets exactly one dispatch attempt: when an appointment errs,
\* the Eligible ones after it are still processed, and no id is dispatched
\* twice in a cycle.
C14_Original ==
    [][LoopStep =>
          /\ (ev'.outcome \in {"NoCustomer", "BadStart", "SendError"}
                /\ \E i \in 2..Len(appointments) :
                      /\ appointments[i].id # Head(appointments).id
                      /\ EligibleWithCustomer(appointments[i], reminders_set'))
                => /\ pc' = "loop"
                   /\ appointments' = Tail(appointments)
          /\ IsDispatch(ev') => Head(appointments).id \notin recorded]_vars

NoDuplicates(set) ==
    \A i, j \in 1..Len(set) : set[i] = set[j] => i = j

C16_MissingCustomerSkipped ==
    [][(LoopStep
          /\ Head(appointments).start.wellformed
          /\ Head(appointments).id \notin Range(reminders_set)
          /\ Head(appointments).start.time - now > 0
          /\ Head(appointments).start.time - now <= 3
          /\ Head(appointments).customer_id \notin customers)
          => /\ ~IsDispatch(ev')
             /\ pc' = "loop"
             /\ appointments' = Tail(appointments)
             /\ UNCHANGED <<reminders_set, file, err, recorded, lost,
                            persisted, customers, now>>]_vars

\* C16 witness: an appointment was skipped for its missing customer and
\* another appointment is still to come in the same cycle.
C16_Witness ==
    /\ ev.outcome = "NoCustomer"
    /\ pc = "loop"
    /\ appointments # <<>>
    /\ err = "None"

\* C17: the order inside a cycle: the for loop starts only after both
\* fetches, each pass takes the first appointment not yet reached, the Vec
\* changes only by the push of the id whose dispatch has just returned Ok,
\* and the file changes only in the write that follows the for loop.
C17_StepOrder ==
    [][/\ pc' = "fetch_customers" => pc = "fetch_appointments"
       /\ (pc' = "loop" /\ pc # "loop") => pc = "fetch_customers"
       /\ ev'.appt # NoAppointment
             => /\ pc = "loop"
                /\ appointments # <<>>
                /\ ev'.appt = Head(appointments)
                /\ appointments' \in {Tail(appointments), <<>>}
       /\ (Running /\ pc' # "boot" /\ reminders_set' # reminders_set)
             => /\ ev'.outcome = "Sent"
                /\ ev'.smtp # "none"
                /\ reminders_set' = Append(reminders_set, ev'.appt.id)
       /\ file' # file
             => /\ pc = "write"
                /\ appointments = <<>>]_vars

\* C17 witness: the second appointment of a fetched list has been reminded
\* after the first one was.
C17_Witness ==
    /\ ev.outcome = "Sent"
    /\ Cardinality(recorded) = 2
    /\ reminders_set[Len(reminders_set)] = ev.appt.id

\* C18: every cycle ends in the write, whatever check() returned, and
\* after a write that succeeded the file is the Vec, which includes the ids
\* pushed in this cycle before check() returned an error.
C18_WrittenEveryCycle ==
    /\ pc = "sleep" => ev.outcome \in {"WriteOk", "WriteFailed"}
    /\ (pc = "sleep" /\ ev.outcome = "WriteOk")
          => /\ Durable(file) = [ok |-> TRUE, ids |-> reminders_set]
             /\ recorded \subseteq Range(Durable(file).ids)

\* C18 witness: a cycle pushed an id, then check() returned an error, and
\* the write succeeded.
C18_Witness ==
    /\ pc = "sleep"
    /\ ev.outcome = "WriteOk"
    /\ err \in {"StartDate", "Send"}
    /\ recorded # {}

\* The appointment whose reminder is followed: it starts in 2 days, so it
\* is inside the window for every now in 0..MaxNow, and its customer is in
\* every list of CustomerLists.
Target == [id |-> 2, start |-> [wellformed |-> TRUE, time |-> 2],
           customer_id |-> 2]

\* A run that starts without a state file or with one that does not hold
\* the id of Target.
LiveInit ==
    /\ Init
    /\ file \in {NoFile, FileWith(Serialize(<<1>>))}

\* get_appointments succeeds and Target is in the list, anywhere; the
\* other appointments of the list have another id.
LiveFetchAppointments ==
    /\ FetchAppointmentsOk
    /\ \E i \in 1..Len(appointments') : appointments'[i] = Target
    /\ \A i \in 1..Len(appointments') :
          appointments'[i].id = Target.id => appointments'[i] = Target

\* One pass of the for loop; the dispatch for Target, when it is reached,
\* succeeds. The dispatch for any other appointment may fail.
LiveIterate ==
    /\ Iterate
    /\ Head(appointments) = Target => ev'.smtp \in {"none", "positive"}

LiveNext ==
    \/ StartupNoFile
    \/ StartupLoad
    \/ LiveFetchAppointments
    \/ FetchAppointmentsFail
    \/ FetchCustomersOk
    \/ FetchCustomersFail
    \/ LiveIterate
    \/ LoopEnd
    \/ PersistOk
    \/ PersistFail
    \/ Sleep

\* Cycles are scheduled fairly (the process keeps running) and each fetch
\* succeeds again and again.
LiveSpec ==
    /\ LiveInit
    /\ [][LiveNext]_vars
    /\ WF_vars(LiveNext)
    /\ SF_vars(LiveFetchAppointments)
    /\ SF_vars(FetchCustomersOk)

\* C19 (as claimed): an appointment that stays inside the window, is in
\* every fetched list, has its customer and whose own dispatch would
\* succeed is eventually reminded and its id recorded, whatever other
\* appointments are in the fetched lists.
C19_Original == <>(\E i \in 1..Len(reminders_set) : reminders_set[i] = Target.id)

====
